---- MODULE Spec2Model ----
(***************************************************************************)
(* Model of samualtnorman/duration: the Duration data shape,               *)
(* normalizeDuration() (normalizeDuration.ts) and formatDuration()         *)
(* (formatDuration.ts).                                                    *)
(*                                                                         *)
(* A JavaScript number is modelled as a record [k, n, d]:                  *)
(*   k = "undefined"  the property is absent or set to undefined           *)
(*   k = "NaN"        the number NaN                                       *)
(*   k = "number"     the finite number n/d, in lowest terms, d >= 1       *)
(* The code treats an absent property and one set to undefined alike       *)
(* (`!= undefined`, `??`, `Object.values(...).some(value => value && ...)`)*)
(* so both are the one kind "undefined".                                   *)
(***************************************************************************)
EXTENDS Integers, Sequences, FiniteSets, TLC

VARIABLES duration, before, options, op, thrown, returned, calls

vars == <<duration, before, options, op, thrown, returned, calls>>

(***************************************************************************)
(* Bounds of the explored inputs.                                          *)
(***************************************************************************)
\* how many times a field's value may wrap its unit bound in an input
MaxWraps == 1
\* largest maxEntries option tried
MaxEntriesTried == 2
\* how many times normalizeDuration is called on one Duration object
MaxNormalizeCalls == 1
\* normalizeDuration is called on field values up to this magnitude, which
\* keeps every intermediate value within the model checker's integers
MaxMagnitude == 1000000

(***************************************************************************)
(* Units, in the fixed order years .. milliseconds.                        *)
(***************************************************************************)
UnitOrder == <<"years", "days", "hours", "minutes", "seconds", "milliseconds">>

UnitNames == {UnitOrder[i] : i \in 1..6}

\* conversion constants of normalizeDuration
MillisecondsPerSecond == 1000
SecondsPerMinute == 60
MinutesPerHour == 60
HoursPerDay == 24
\* a year of 366 days
DaysPerLeapYear == 365 + 1

DaysPerYear == 365

(***************************************************************************)
(* JavaScript numbers.                                                     *)
(***************************************************************************)
Abs(i) == IF i < 0 THEN -i ELSE i

RECURSIVE GCD(_, _)
GCD(a, b) == IF b = 0 THEN a ELSE GCD(b, a % b)

Undefined == [k |-> "undefined", n |-> 0, d |-> 1]

NaN == [k |-> "NaN", n |-> 0, d |-> 1]

\* the finite number n/d (d > 0), reduced
Num(n, d) ==
    LET g == GCD(Abs(n), d)
    IN  [k |-> "number", n |-> n \div g, d |-> d \div g]

Integer(i) == [k |-> "number", n |-> i, d |-> 1]

\* `x != undefined`
IsDefined(x) == x.k # "undefined"

\* `x ?? y`
Coalesce(x, y) == IF x.k = "undefined" THEN y ELSE x

\* ToBoolean(x): undefined, NaN and 0 are falsy
Truthy(x) == x.k = "number" /\ x.n # 0

\* Number.isInteger(x)
NumberIsInteger(x) == x.k = "number" /\ x.d = 1

\* x + y
JsAdd(x, y) ==
    IF x.k # "number" \/ y.k # "number" THEN NaN
    ELSE Num(x.n * y.d + y.n * x.d, x.d * y.d)

\* x * c, c an integer constant
JsMul(x, c) == IF x.k # "number" THEN NaN ELSE Num(x.n * c, x.d)

\* x / c, c a positive integer constant
JsDiv(x, c) == IF x.k # "number" THEN NaN ELSE Num(x.n, x.d * c)

\* Math.floor(x)
MathFloor(x) == IF x.k # "number" THEN NaN ELSE Integer(x.n \div x.d)

\* JsRem without the remainder: `x %= c` left out
JsRemKept(x, c) == x

\* x % c, c a positive integer constant: the result takes the dividend's sign
JsRem(x, c) ==
    IF x.k # "number" THEN NaN
    ELSE LET m == c * x.d
             r == IF x.n >= 0 THEN x.n % m ELSE -((-x.n) % m)
         IN  Num(r, x.d)

(***************************************************************************)
(* normalizeDuration(duration): void, mutating its argument.  The result   *)
(* is the error class thrown ("none" if it returns) and the Duration as    *)
(* the call leaves it.                                                     *)
(***************************************************************************)
NonIntegerCheck(dur) ==
    \E u \in UnitNames : Truthy(dur[u]) /\ ~NumberIsInteger(dur[u])

\* Carry left out: the `+=` is forgotten and only the remainder is kept
CarryLost(x, c) == IF x.k # "number" THEN NaN ELSE Integer(0)

\* Carry with Math.ceil for Math.floor
CarryCeiling(x, c) ==
    IF x.k # "number" THEN NaN ELSE Integer(-((-x.n) \div (x.d * c)))

\* Carry with Math.round for Math.floor
CarryRounded(x, c) ==
    IF x.k # "number" THEN NaN ELSE Integer((2 * x.n + x.d * c) \div (2 * x.d * c))

\* Math.floor(x / c), the amount carried into the next unit
Carry(x, c) == MathFloor(JsDiv(x, c))

\* Fold with the else branch left out: the carried amount is lost
FoldDropped(field, lower, upper, c) == lower

\* Fold without the conversion: `lower += upper`
FoldUnscaled(field, lower, upper, c) ==
    IF IsDefined(field) THEN lower ELSE JsAdd(lower, upper)

\* `if (duration.upper != undefined) ... else lower += upper * c`: the value of
\* the lower unit after the if statement of the unit above it
Fold(field, lower, upper, c) ==
    IF IsDefined(field) THEN lower ELSE JsAdd(lower, JsMul(upper, c))

\* Store without the condition: `duration.x = value`
StoreAlways(field, value) == value

\* `if (duration.x != undefined) duration.x = value`: the field afterwards
Store(field, value) == IF IsDefined(field) THEN value ELSE field

normalizeDuration(dur) ==
    IF NonIntegerCheck(dur)
    THEN [thrown |-> "NormalizeNonIntegerDurationError", duration |-> dur]
    ELSE
    LET milliseconds0 == Coalesce(dur.milliseconds, Integer(0))
        seconds0 == Coalesce(dur.seconds, Integer(0))
        minutes0 == Coalesce(dur.minutes, Integer(0))
        hours0 == Coalesce(dur.hours, Integer(0))
        days0 == Coalesce(dur.days, Integer(0))
        years0 == Coalesce(dur.years, Integer(0))
        \* carry upwards
        seconds1 == JsAdd(seconds0, Carry(milliseconds0, MillisecondsPerSecond))
        milliseconds1 == JsRem(milliseconds0, MillisecondsPerSecond)
        minutes1 == JsAdd(minutes0, Carry(seconds1, SecondsPerMinute))
        seconds2 == JsRem(seconds1, SecondsPerMinute)
        hours1 == JsAdd(hours0, Carry(minutes1, MinutesPerHour))
        minutes2 == JsRem(minutes1, MinutesPerHour)
        days1 == JsAdd(days0, Carry(hours1, HoursPerDay))
        hours2 == JsRem(hours1, HoursPerDay)
        years1 == JsAdd(years0, Carry(days1, DaysPerYear))
        days2 == JsRem(days1, DaysPerYear)
        \* store into the present fields, fold the absent ones downwards
        days3 == Fold(dur.years, days2, years1, DaysPerYear)
        hours3 == Fold(dur.days, hours2, days3, HoursPerDay)
        minutes3 == Fold(dur.hours, minutes2, hours3, MinutesPerHour)
        seconds3 == Fold(dur.minutes, seconds2, minutes3, SecondsPerMinute)
        milliseconds2 == Fold(dur.seconds, milliseconds1, seconds3, MillisecondsPerSecond)
    IN  [thrown |-> "none",
         duration |->
            [years |-> Store(dur.years, years1),
             days |-> Store(dur.days, days3),
             hours |-> Store(dur.hours, hours3),
             minutes |-> Store(dur.minutes, minutes3),
             seconds |-> Store(dur.seconds, seconds3),
             milliseconds |-> Store(dur.milliseconds, milliseconds2)]]

(***************************************************************************)
(* formatDuration(duration, options): string.  Strings are TLA+ strings;   *)
(* an optional string option is a sequence of at most one string (<<>> is  *)
(* undefined).  hideZero is one of "undefined", "false", "true",           *)
(* "leading".                                                              *)
(***************************************************************************)
\* `${value}` for the numbers formatDuration can reach: integers and NaN
\* (a non-integer is only rendered with the tenths it has)
NumberToString(x) ==
    IF x.k = "NaN" THEN "NaN"
    ELSE IF x.d = 1 THEN ToString(x.n)
    ELSE (IF x.n < 0 THEN "-" ELSE "") \o ToString(Abs(x.n) \div x.d) \o "."
         \o ToString(((Abs(x.n) % x.d) * 10) \div x.d)

\* `option || default`: the empty string falls back to the default too
StringOrFalsy(opt, default) ==
    IF opt = <<>> \/ opt[1] = "" THEN default ELSE opt[1]

\* `option ?? default` for an optional string
StringOr(opt, default) == IF opt = <<>> THEN default ELSE opt[1]

\* ToBoolean(options.hideZero)
HideZeroTruthy(hideZero) == hideZero \in {"true", "leading"}

\* MaxEntriesInvalid without the Number.isInteger check
MaxEntriesBelowOne(maxEntries) ==
    /\ IsDefined(maxEntries)
    /\ maxEntries.k = "number" /\ maxEntries.n < maxEntries.d

\* the checks on options.maxEntries
MaxEntriesInvalid(maxEntries) ==
    /\ IsDefined(maxEntries)
    /\ \/ (maxEntries.k = "number" /\ maxEntries.n < maxEntries.d)
       \/ ~NumberIsInteger(maxEntries)

\* UnitOf with `value <= 1` for `value == 1`
UnitOfAtMostOne(value, singular, plural) ==
    IF value.k = "number" /\ value.n <= value.d THEN singular ELSE plural

\* the singular name exactly when value == 1
UnitOf(value, singular, plural) ==
    IF value.k = "number" /\ value.n = 1 /\ value.d = 1 THEN singular ELSE plural

\* resolved unit names, options.<unit>UnitName<Number> ?? default
ResolvedNames(opts) ==
    [yearUnitNameSingular |-> StringOr(opts.yearUnitNameSingular, "year"),
     yearUnitNamePlural |-> StringOr(opts.yearUnitNamePlural, "years"),
     dayUnitNameSingular |-> StringOr(opts.dayUnitNameSingular, "day"),
     dayUnitNamePlural |-> StringOr(opts.dayUnitNamePlural, "days"),
     hourUnitNameSingular |-> StringOr(opts.hourUnitNameSingular, "hour"),
     hourUnitNamePlural |-> StringOr(opts.hourUnitNamePlural, "hours"),
     minuteUnitNameSingular |-> StringOr(opts.minuteUnitNameSingular, "minute"),
     minuteUnitNamePlural |-> StringOr(opts.minuteUnitNamePlural, "minutes"),
     secondUnitNameSingular |-> StringOr(opts.secondUnitNameSingular, "second"),
     secondUnitNamePlural |-> StringOr(opts.secondUnitNamePlural, "seconds"),
     millisecondUnitNameSingular |-> StringOr(opts.millisecondUnitNameSingular, "millisecond"),
     millisecondUnitNamePlural |-> StringOr(opts.millisecondUnitNamePlural, "milliseconds")]

\* EntryOf with a truthiness test for `!= undefined`: `duration.x && {...}`
EntryOfTruthy(value, singular, plural) ==
    IF Truthy(value)
    THEN <<[value |-> value, unit |-> IF value.n = 1 /\ value.d = 1 THEN singular ELSE plural]>>
    ELSE <<>>

\* one element of the entries array literal: the entry, or nothing when the
\* field is undefined (`duration.x != undefined && {...}` then filter(Boolean))
EntryOf(value, singular, plural) ==
    IF IsDefined(value)
    THEN <<[value |-> value, unit |-> UnitOf(value, singular, plural)]>>
    ELSE <<>>

Entries(dur, opts) ==
    LET names == ResolvedNames(opts)
    IN  EntryOf(dur.years, names.yearUnitNameSingular, names.yearUnitNamePlural)
        \o EntryOf(dur.days, names.dayUnitNameSingular, names.dayUnitNamePlural)
        \o EntryOf(dur.hours, names.hourUnitNameSingular, names.hourUnitNamePlural)
        \o EntryOf(dur.minutes, names.minuteUnitNameSingular, names.minuteUnitNamePlural)
        \o EntryOf(dur.seconds, names.secondUnitNameSingular, names.secondUnitNamePlural)
        \o EntryOf(dur.milliseconds, names.millisecondUnitNameSingular,
                   names.millisecondUnitNamePlural)

\* entries.findIndex(item => item.value), 0-based, -1 when there is none
FindIndexTruthy(entries) ==
    IF \E i \in 1..Len(entries) : Truthy(entries[i].value)
    THEN (CHOOSE i \in 1..Len(entries) :
            /\ Truthy(entries[i].value)
            /\ \A j \in 1..(i - 1) : ~Truthy(entries[j].value)) - 1
    ELSE -1

\* SliceFrom that drops every falsy entry, not only the leading ones
SliceFromNonZero(entries, start) ==
    SelectSeq(entries, LAMBDA item : Truthy(item.value))

\* entries.slice(start), start >= 0
SliceFrom(entries, start) == SubSeq(entries, start + 1, Len(entries))

\* entries.filter(item => item.value)
ValueIsTruthy(item) == Truthy(item.value)

\* FilterTruthy that keeps every entry
FilterKeepAll(entries) == entries

FilterTruthy(entries) == SelectSeq(entries, ValueIsTruthy)

\* SliceMax that ignores maxEntries
SliceMaxIgnored(entries, maxEntries) == entries

\* entries.slice(0, maxEntries), maxEntries undefined or a positive integer
SliceMax(entries, maxEntries) ==
    IF ~IsDefined(maxEntries) THEN entries
    ELSE SubSeq(entries, 1, IF maxEntries.n < Len(entries) THEN maxEntries.n
                            ELSE Len(entries))

\* `${item.value}${options.noSpaceBeforeUnit ? `` : ` `}${item.unit}`
RenderEntry(item, opts) ==
    NumberToString(item.value) \o (IF opts.noSpaceBeforeUnit THEN "" ELSE " ")
    \o item.unit

RECURSIVE Join(_, _)
\* strings.join(separator)
Join(strings, separator) ==
    IF Len(strings) = 0 THEN ""
    ELSE IF Len(strings) = 1 THEN strings[1]
    ELSE strings[1] \o separator \o Join(Tail(strings), separator)

\* entries.slice(0, maxEntries).map(render).join(options.separator ?? ", ")
RenderEntries(entries, opts) ==
    LET kept == SliceMax(entries, opts.maxEntries)
    IN  Join([i \in 1..Len(kept) |-> RenderEntry(kept[i], opts)],
             StringOr(opts.separator, ", "))

\* ZeroFallback left out: the empty list is joined
ZeroFallbackMissing(entries) == ""

\* ZeroFallback with the first entry for the last: `0 ${entries[0]!.unit}`
ZeroFallbackFirst(entries) == "0 " \o entries[1].unit

\* the fallback of hideZero when nothing is left: `0 ${entries.at(-1)!.unit}`
ZeroFallback(entries) == "0 " \o entries[Len(entries)].unit

formatDuration(dur, opts) ==
    IF MaxEntriesInvalid(opts.maxEntries)
    THEN [thrown |-> "FormatDurationOptionError", returned |-> ""]
    ELSE IF NonIntegerCheck(dur)
    THEN [thrown |-> "FormatNonIntegerDurationError", returned |-> ""]
    ELSE LET entries == Entries(dur, opts)
         IN  IF Len(entries) = 0
             THEN [thrown |-> "FormatEmptyDurationError", returned |-> ""]
             ELSE IF HideZeroTruthy(opts.hideZero)
             THEN LET nonZeros ==
                        IF opts.hideZero = "leading"
                        THEN SliceFrom(entries,
                                IF FindIndexTruthy(entries) > 0
                                THEN FindIndexTruthy(entries) ELSE 0)
                        ELSE FilterTruthy(entries)
                  IN  IF Len(nonZeros) # 0
                      THEN [thrown |-> "none", returned |-> RenderEntries(nonZeros, opts)]
                      ELSE [thrown |-> "none", returned |-> ZeroFallback(entries)]
             ELSE [thrown |-> "none", returned |-> RenderEntries(entries, opts)]

(***************************************************************************)
(* The inputs explored: the Durations a caller constructs and the options  *)
(* it passes to formatDuration.                                            *)
(***************************************************************************)
\* the per-unit bound a normalized field stays under; years has none, its
\* inputs are spread as if it wrapped at 2
InputSpan(u) ==
    CASE u = "milliseconds" -> MillisecondsPerSecond
      [] u = "seconds" -> SecondsPerMinute
      [] u = "minutes" -> MinutesPerHour
      [] u = "hours" -> HoursPerDay
      [] u = "days" -> DaysPerYear
      [] u = "years" -> 2

\* integer inputs of a field: 0, 1, the largest in-bound value and values
\* that wrap the bound up to MaxWraps times
IntValues(u) ==
    {Integer(0), Integer(1)}
    \cup {Integer(w * InputSpan(u) + InputSpan(u) - 1) : w \in 0..MaxWraps}

\* the inputs formatDuration is tried on with every option
SmallValues(u) == {Undefined, Integer(0), Integer(1), Integer(2 * InputSpan(u) - 1)}

\* a non-integer, NaN and negative integers
OddValues(u) == {Num(3, 2), NaN, Integer(-1), Integer(-(InputSpan(u) + 1))}

IntDurations == [UnitNames -> {Undefined}] \cup
    {[years |-> y, days |-> d, hours |-> h, minutes |-> m, seconds |-> s,
      milliseconds |-> ms] :
        y \in {Undefined} \cup IntValues("years"),
        d \in {Undefined} \cup IntValues("days"),
        h \in {Undefined} \cup IntValues("hours"),
        m \in {Undefined} \cup IntValues("minutes"),
        s \in {Undefined} \cup IntValues("seconds"),
        ms \in {Undefined} \cup IntValues("milliseconds")}

\* Durations with one odd value among absent and overflowing fields.  A
\* negative value is only tried with years present: with years absent the
\* code folds a carry of -1 year down into the smaller units, and the folded
\* value leaves the 32-bit integers of the model checker.
OddDurations ==
    {dur \in
        {[u \in UnitNames |->
            IF u = odd THEN x
            ELSE IF u \in present THEN Integer(2 * InputSpan(u) - 1) ELSE Undefined] :
            odd \in UnitNames, x \in UNION {OddValues(v) : v \in UnitNames},
            present \in SUBSET UnitNames} :
        (\E u \in UnitNames : dur[u].k = "number" /\ dur[u].n < 0)
            => IsDefined(dur.years)}

Durations == IntDurations \cup OddDurations

IsSmall(dur) == \A u \in UnitNames : dur[u] \in SmallValues(u)

\* the inputs the combinations of hideZero, maxEntries, noSpaceBeforeUnit and
\* separator are tried on: absent, 0, or one non-zero value per field (1 for
\* years, hours and seconds, more than 1 for the others)
TinyValues(u) ==
    {Undefined, Integer(0),
     IF u \in {"years", "hours", "seconds"} THEN Integer(1)
     ELSE Integer(2 * InputSpan(u) - 1)}

IsTiny(dur) == \A u \in UnitNames : dur[u] \in TinyValues(u)

IsOdd(dur) == \E u \in UnitNames : IsDefined(dur[u]) /\ ~(NumberIsInteger(dur[u]) /\ dur[u].n >= 0)

NameKeys ==
    {"yearUnitNameSingular", "yearUnitNamePlural", "dayUnitNameSingular",
     "dayUnitNamePlural", "hourUnitNameSingular", "hourUnitNamePlural",
     "minuteUnitNameSingular", "minuteUnitNamePlural", "secondUnitNameSingular",
     "secondUnitNamePlural", "millisecondUnitNameSingular",
     "millisecondUnitNamePlural"}

\* the override tried for a unit name (the names of the tests)
ShortName(key) ==
    CASE key \in {"yearUnitNameSingular", "yearUnitNamePlural"} -> "y"
      [] key \in {"dayUnitNameSingular", "dayUnitNamePlural"} -> "d"
      [] key \in {"hourUnitNameSingular", "hourUnitNamePlural"} -> "h"
      [] key \in {"minuteUnitNameSingular", "minuteUnitNamePlural"} -> "m"
      [] key \in {"secondUnitNameSingular", "secondUnitNamePlural"} -> "s"
      [] key \in {"millisecondUnitNameSingular", "millisecondUnitNamePlural"} -> "ms"

\* formatDuration(duration) with no options
DefaultOptions ==
    [hideZero |-> "undefined", maxEntries |-> Undefined,
     noSpaceBeforeUnit |-> FALSE, separator |-> <<>>,
     yearUnitNameSingular |-> <<>>, yearUnitNamePlural |-> <<>>,
     dayUnitNameSingular |-> <<>>, dayUnitNamePlural |-> <<>>,
     hourUnitNameSingular |-> <<>>, hourUnitNamePlural |-> <<>>,
     minuteUnitNameSingular |-> <<>>, minuteUnitNamePlural |-> <<>>,
     secondUnitNameSingular |-> <<>>, secondUnitNamePlural |-> <<>>,
     millisecondUnitNameSingular |-> <<>>, millisecondUnitNamePlural |-> <<>>]

\* opts with the unit names of keys overridden
WithNames(opts, keys) ==
    [f \in DOMAIN opts |-> IF f \in keys THEN <<ShortName(f)>> ELSE opts[f]]

\* no override, every name overridden, or exactly one name overridden
NameOptions ==
    {DefaultOptions, WithNames(DefaultOptions, NameKeys)}
    \cup {WithNames(DefaultOptions, {key}) : key \in NameKeys}

\* valid combinations of hideZero, maxEntries, noSpaceBeforeUnit, separator
CrossOptions ==
    {[DefaultOptions EXCEPT !.hideZero = hz, !.maxEntries = me,
                            !.noSpaceBeforeUnit = ns, !.separator = sep] :
        hz \in {"undefined", "true", "leading"},
        me \in {Undefined} \cup {Integer(i) : i \in 1..MaxEntriesTried},
        ns \in BOOLEAN,
        sep \in {<<>>, <<"">>}}

\* maxEntries that is not a positive integer
ErrorOptions ==
    {[DefaultOptions EXCEPT !.hideZero = hz, !.maxEntries = me] :
        hz \in {"undefined", "true", "leading"},
        me \in {Integer(0), Integer(-1), Num(3, 2), NaN}}

\* the remaining option values of the tests
OtherOptions ==
    {[DefaultOptions EXCEPT !.hideZero = "false"],
     [WithNames(DefaultOptions, NameKeys) EXCEPT !.noSpaceBeforeUnit = TRUE],
     [WithNames(DefaultOptions, NameKeys) EXCEPT !.noSpaceBeforeUnit = TRUE,
                                                 !.separator = <<" ">>]}

BasicOptions == {DefaultOptions, WithNames(DefaultOptions, NameKeys)}

\* hideZero alone
HideOptions ==
    {[DefaultOptions EXCEPT !.hideZero = hz] : hz \in {"true", "leading"}}

\* hideZero and noSpaceBeforeUnit with every unit name overridden
HideNamedOptions ==
    {[WithNames(DefaultOptions, NameKeys) EXCEPT !.hideZero = hz,
                                                 !.noSpaceBeforeUnit = ns] :
        hz \in {"true", "leading"}, ns \in BOOLEAN}

\* the options tried on a Duration
OptionsFor(dur) ==
    BasicOptions
    \cup (IF IsSmall(dur) THEN NameOptions \cup OtherOptions ELSE {})
    \cup (IF IsTiny(dur) THEN CrossOptions \cup ErrorOptions \cup HideNamedOptions
          ELSE {})
    \cup (IF IsOdd(dur) THEN HideOptions \cup ErrorOptions ELSE {})

(***************************************************************************)
(* The state machine: a caller holds one Duration object and one options   *)
(* object and calls the two functions on them.  before is the Duration as  *)
(* it was when the last call was made, thrown the class of the error the   *)
(* last call threw ("none" if it returned), returned the string            *)
(* formatDuration returned and calls the number of normalizeDuration calls *)
(* made so far.                                                            *)
(***************************************************************************)
Init ==
    /\ duration \in Durations
    /\ options \in OptionsFor(duration)
    /\ before = duration
    /\ op = "none"
    /\ thrown = "none"
    /\ returned = ""
    /\ calls = 0

InRange(dur) ==
    \A u \in UnitNames : Abs(dur[u].n) <= MaxMagnitude /\ dur[u].d <= MaxMagnitude

\* normalizeDuration(duration)
Normalize ==
    /\ calls < MaxNormalizeCalls
    /\ InRange(duration)
    /\ LET result == normalizeDuration(duration)
       IN  /\ duration' = result.duration
           /\ thrown' = result.thrown
    /\ before' = duration
    /\ op' = "normalizeDuration"
    /\ returned' = ""
    /\ calls' = calls + 1
    /\ UNCHANGED options

\* formatDuration(duration, options)
\* Format that writes the carried fields back into its argument
FormatNormalizing ==
    /\ LET carried == IF InRange(duration) THEN normalizeDuration(duration).duration
                      ELSE duration
           result == formatDuration(carried, options)
       IN  /\ thrown' = result.thrown
           /\ returned' = result.returned
           /\ duration' = carried
    /\ before' = duration
    /\ op' = "formatDuration"
    /\ UNCHANGED <<options, calls>>

Format ==
    /\ LET result == formatDuration(duration, options)
       IN  /\ thrown' = result.thrown
           /\ returned' = result.returned
    /\ before' = duration
    /\ op' = "formatDuration"
    /\ UNCHANGED <<duration, options, calls>>

Next == Normalize \/ Format

Spec == Init /\ [][Next]_vars

(***************************************************************************)
(* Vocabulary of the properties.                                           *)
(***************************************************************************)
Present(dur, u) == IsDefined(dur[u])

PresentUnits(dur) == {u \in UnitNames : Present(dur, u)}

AllPresent(dur) == PresentUnits(dur) = UnitNames

\* every present value is a non-negative integer
NonNegativeIntegers(dur) ==
    \A u \in UnitNames : Present(dur, u) => NumberIsInteger(dur[u]) /\ dur[u].n >= 0

\* the integer a field holds, an absent field counted as 0
Amount(dur, u) == IF Present(dur, u) THEN dur[u].n ELSE 0

\* position of a unit in the order years .. milliseconds
Rank(u) == CHOOSE i \in 1..6 : UnitOrder[i] = u

\* the fixed per-unit bound (years has none)
UnitBound(u) ==
    CASE u = "milliseconds" -> 1000
      [] u = "seconds" -> 60
      [] u = "minutes" -> 60
      [] u = "hours" -> 24
      [] u = "days" -> 365

\* The total duration is ((((y*365+d)*24+h)*60+m)*60+s)*1000+ms.  That number
\* leaves the model checker's integers within a month, so the total is kept
\* as whole days and the milliseconds of the remaining part of a day; two
\* totals are equal exactly when both parts are.
MillisecondsPerDay == HoursPerDay * MinutesPerHour * SecondsPerMinute * MillisecondsPerSecond

SubDayMilliseconds(dur) ==
    ((Amount(dur, "hours") * 60 + Amount(dur, "minutes")) * 60
        + Amount(dur, "seconds")) * 1000 + Amount(dur, "milliseconds")

TotalDuration(dur) ==
    <<Amount(dur, "years") * 365 + Amount(dur, "days")
        + (SubDayMilliseconds(dur) \div MillisecondsPerDay),
      SubDayMilliseconds(dur) % MillisecondsPerDay>>

\* the last call was normalizeDuration
Normalized == op = "normalizeDuration"

\* the last call was formatDuration
Formatted == op = "formatDuration"

\* the largest present unit
IsLargestPresent(dur, u) ==
    Present(dur, u) /\ \A v \in UnitNames : Present(dur, v) => Rank(v) >= Rank(u)

\* the next-larger present unit of u, for a present u that is not the largest
NextLargerPresent(dur, u) ==
    CHOOSE v \in UnitNames :
        /\ Present(dur, v) /\ Rank(v) < Rank(u)
        /\ \A w \in UnitNames : Present(dur, w) /\ Rank(w) < Rank(u) => Rank(w) <= Rank(v)

RECURSIVE WholeUnitsOf(_, _, _)
\* how many whole units `upper` the amount `amount` of the smaller unit at
\* rank `rank` makes up
WholeUnitsOf(amount, rank, upper) ==
    IF rank = Rank(upper) THEN amount
    ELSE WholeUnitsOf(amount \div UnitBound(UnitOrder[rank]), rank - 1, upper)

(***************************************************************************)
(* Properties of normalizeDuration.                                        *)
(***************************************************************************)
\* C1: when all six fields are present non-negative integers,
\* normalizeDuration returns and leaves milliseconds in [0,1000), seconds and
\* minutes in [0,60), hours in [0,24), days in [0,365), years >= 0, every
\* field an integer, and the total duration the same as before the call.
C1_CarryCorrectness ==
    (Normalized /\ AllPresent(before) /\ NonNegativeIntegers(before)) =>
        /\ thrown = "none"
        /\ \A u \in UnitNames : NumberIsInteger(duration[u]) /\ duration[u].n >= 0
        /\ \A u \in UnitNames \ {"years"} : duration[u].n < UnitBound(u)
        /\ TotalDuration(duration) = TotalDuration(before)

\* all six fields were present and each of the five carries moved something
C1_Witness ==
    /\ Normalized /\ AllPresent(before) /\ NonNegativeIntegers(before)
    /\ \A u \in UnitNames \ {"years"} : before[u].n >= UnitBound(u)
    /\ duration.years.n > before.years.n

\* C2: for any subset of present fields with non-negative integer values,
\* normalizeDuration returns and the total duration represented by the
\* present fields (absent fields counted as 0) is the same after the call as
\* before it.
C2_TotalPreserved ==
    (Normalized /\ NonNegativeIntegers(before)) =>
        /\ thrown = "none"
        /\ NonNegativeIntegers(duration)
        /\ TotalDuration(duration) = TotalDuration(before)

\* a carry out of milliseconds was folded back down through absent seconds
\* and minutes (hours is the next present unit)
C2_Witness ==
    /\ Normalized /\ NonNegativeIntegers(before) /\ thrown = "none"
    /\ Present(before, "milliseconds") /\ before.milliseconds.n >= 1000
    /\ ~Present(before, "seconds") /\ ~Present(before, "minutes")
    /\ Present(before, "hours") /\ ~Present(before, "years")
    /\ duration.milliseconds = before.milliseconds

\* C3 as stated: after normalizeDuration every present field other than the
\* largest present unit lies within its fixed per-unit bound.
C3_Original ==
    (Normalized /\ NonNegativeIntegers(before)) =>
        \A u \in UnitNames :
            (Present(duration, u) /\ ~IsLargestPresent(duration, u)) =>
                duration[u].n < UnitBound(u)

\* C3 (amended): after normalizeDuration on non-negative integer fields, every
\* present field whose immediately larger unit is also present lies within
\* its fixed per-unit bound; a field may exceed its bound only when it is the
\* largest present unit or the unit just above it is absent.
C3_BoundWhenNextUnitPresent ==
    (Normalized /\ NonNegativeIntegers(before)) =>
        \A i \in 2..6 :
            (Present(duration, UnitOrder[i]) /\ Present(duration, UnitOrder[i - 1])) =>
                /\ NumberIsInteger(duration[UnitOrder[i]])
                /\ duration[UnitOrder[i]].n >= 0
                /\ duration[UnitOrder[i]].n < UnitBound(UnitOrder[i])

\* seconds overflowed next to a present minutes and was brought under 60,
\* while milliseconds, whose next unit is present too, was brought under 1000
C3_Witness ==
    /\ Normalized /\ NonNegativeIntegers(before) /\ thrown = "none"
    /\ Present(before, "minutes") /\ Present(before, "seconds")
    /\ Present(before, "milliseconds") /\ ~Present(before, "hours")
    /\ before.seconds.n >= 60 /\ before.milliseconds.n >= 1000
    /\ duration.seconds.n < 60 /\ duration.milliseconds.n < 1000

C5_PresenceUnchanged ==
    Normalized => \A u \in UnitNames : Present(duration, u) <=> Present(before, u)

\* a call that changed values with some fields present and some absent
C5_Witness ==
    /\ Normalized /\ thrown = "none" /\ duration # before
    /\ PresentUnits(before) # {} /\ PresentUnits(before) # UnitNames
    /\ PresentUnits(duration) = PresentUnits(before)

\* C6: when all six fields are present and already within their bounds
\* (non-negative integers), normalizeDuration leaves every value unchanged.
C6_NormalizedIsFixpoint ==
    (/\ Normalized /\ AllPresent(before) /\ NonNegativeIntegers(before)
     /\ \A u \in UnitNames \ {"years"} : before[u].n < UnitBound(u)) =>
        thrown = "none" /\ duration = before

\* an in-bound input with every field non-zero went through the call
C6_Witness ==
    /\ Normalized /\ AllPresent(before) /\ NonNegativeIntegers(before)
    /\ \A u \in UnitNames \ {"years"} : before[u].n = UnitBound(u) - 1
    /\ before.years.n > 0
    /\ duration = before

\* C7 as stated: when a present field holds a non-zero non-integer value,
\* normalizeDuration throws NormalizeNonIntegerDurationError and leaves the
\* Duration as it was.
C7_NonIntegerRejected ==
    (Normalized /\ \E u \in UnitNames :
        Present(before, u) /\ ~NumberIsInteger(before[u])) =>
        thrown = "NormalizeNonIntegerDurationError" /\ duration = before

\* C8: a Duration with at most one present field, holding a non-negative
\* integer, is unchanged by normalizeDuration.
C8_SingleFieldUnchanged ==
    (/\ Normalized /\ NonNegativeIntegers(before)
     /\ Cardinality(PresentUnits(before)) <= 1) =>
        thrown = "none" /\ duration = before

\* the only present field held more than its bound and still holds it
C8_Witness ==
    /\ Normalized /\ thrown = "none"
    /\ PresentUnits(before) = {"seconds"}
    /\ before.seconds.n >= 60
    /\ duration.seconds = before.seconds

(***************************************************************************)
(* Properties of formatDuration.                                           *)
(***************************************************************************)
\* every present value is an integer
PresentIntegers(dur) ==
    \A u \in UnitNames : Present(dur, u) => NumberIsInteger(dur[u])

\* the English default names
DefaultSingular(u) ==
    CASE u = "years" -> "year"
      [] u = "days" -> "day"
      [] u = "hours" -> "hour"
      [] u = "minutes" -> "minute"
      [] u = "seconds" -> "second"
      [] u = "milliseconds" -> "millisecond"

DefaultPlural(u) == u

\* the option that overrides the singular / plural name of a unit
SingularKey(u) == DefaultSingular(u) \o "UnitNameSingular"

PluralKey(u) == DefaultSingular(u) \o "UnitNamePlural"

RECURSIVE DefaultListing(_, _)
\* the text formatDuration(dur) is to return for the first i units: a present
\* field's stored value, a space and the default name, after ", " when an
\* entry precedes it
DefaultListing(dur, i) ==
    IF i = 0 THEN ""
    ELSE LET u == UnitOrder[i]
             head == DefaultListing(dur, i - 1)
             entry == ToString(dur[u].n) \o " "
                        \o (IF dur[u].n = 1 THEN DefaultSingular(u) ELSE DefaultPlural(u))
         IN  IF ~Present(dur, u) THEN head
             ELSE IF \E j \in 1..(i - 1) : Present(dur, UnitOrder[j])
             THEN head \o ", " \o entry
             ELSE entry

\* C9: with no options formatDuration returns one entry per present field
\* (zero-valued ones included, absent ones excluded) in the order years ..
\* milliseconds, each the value as stored, a space and the unit name, joined
\* by ", ".
C9_DefaultFormat ==
    (/\ Formatted /\ options = DefaultOptions
     /\ PresentIntegers(before) /\ PresentUnits(before) # {}) =>
        thrown = "none" /\ returned = DefaultListing(before, 6)

\* a Duration with an absent field, a zero field and an un-normalized field
\* was formatted without options
C9_Witness ==
    /\ Formatted /\ options = DefaultOptions /\ thrown = "none"
    /\ ~Present(before, "years") /\ ~Present(before, "hours")
    /\ Present(before, "days") /\ before.days.n = 0
    /\ Present(before, "minutes") /\ before.minutes.n = 1
    /\ Present(before, "seconds") /\ before.seconds.n >= 60
    /\ Present(before, "milliseconds")

\* the name the options and the defaults give a unit for a value
NameFor(opts, u, value) ==
    IF value = 1
    THEN (IF opts[SingularKey(u)] # <<>> THEN opts[SingularKey(u)][1]
          ELSE DefaultSingular(u))
    ELSE (IF opts[PluralKey(u)] # <<>> THEN opts[PluralKey(u)][1]
          ELSE DefaultPlural(u))

RECURSIVE NamedListing(_, _, _)
NamedListing(dur, opts, i) ==
    IF i = 0 THEN <<>>
    ELSE IF Present(dur, UnitOrder[i])
    THEN Append(NamedListing(dur, opts, i - 1),
                ToString(dur[UnitOrder[i]].n) \o " "
                    \o NameFor(opts, UnitOrder[i], dur[UnitOrder[i]].n))
    ELSE NamedListing(dur, opts, i - 1)

RECURSIVE CommaJoined(_)
CommaJoined(strings) ==
    IF strings = <<>> THEN ""
    ELSE IF Len(strings) = 1 THEN strings[1]
    ELSE CommaJoined(SubSeq(strings, 1, Len(strings) - 1)) \o ", "
            \o strings[Len(strings)]

\* the options differ from the defaults in unit names only
OnlyNamesGiven(opts) ==
    /\ opts.hideZero = "undefined" /\ ~IsDefined(opts.maxEntries)
    /\ ~opts.noSpaceBeforeUnit /\ opts.separator = <<>>

ValidMaxEntries(opts) ==
    \/ ~IsDefined(opts.maxEntries)
    \/ (NumberIsInteger(opts.maxEntries) /\ opts.maxEntries.n >= 1)

\* the present fields that hold a non-zero value
NonZeroUnits(dur) == {u \in PresentUnits(dur) : dur[u] # Integer(0)}

\* some field is present and every present field holds 0
AllZero(dur) == PresentUnits(dur) # {} /\ NonZeroUnits(dur) = {}

\* C11: with integer fields and a valid or absent maxEntries, formatDuration
\* throws FormatEmptyDurationError exactly when no field is present; with a
\* field present it returns a non-empty string whatever hideZero is.
C11_EmptyIffNoField ==
    (Formatted /\ PresentIntegers(before) /\ ValidMaxEntries(options)) =>
        /\ thrown = "FormatEmptyDurationError" <=> PresentUnits(before) = {}
        /\ PresentUnits(before) # {} => (thrown = "none" /\ returned # "")

\* every present field was 0 and hidden by hideZero, and a string came back
C11_Witness ==
    /\ Formatted /\ options.hideZero = "true" /\ ValidMaxEntries(options)
    /\ PresentUnits(before) = {"hours", "minutes", "seconds"} /\ AllZero(before)
    /\ thrown = "none" /\ returned # ""

\* C12 as stated: when a present field holds a non-zero non-integer value and
\* maxEntries is absent or valid, formatDuration throws
\* FormatNonIntegerDurationError and returns no string.
C12_NonIntegerRejected ==
    (/\ Formatted /\ ValidMaxEntries(options)
     /\ \E u \in UnitNames : Present(before, u) /\ ~NumberIsInteger(before[u])) =>
        thrown = "FormatNonIntegerDurationError" /\ returned = ""

\* C13: when maxEntries is given and is not a positive integer,
\* formatDuration throws FormatDurationOptionError for every Duration with
\* integer fields, however few fields are present.
C13_InvalidMaxEntries ==
    (/\ Formatted /\ PresentIntegers(before)
     /\ IsDefined(options.maxEntries) /\ ~ValidMaxEntries(options)) =>
        thrown = "FormatDurationOptionError" /\ returned = ""

\* a fractional maxEntries was rejected for a Duration with a single field
C13_Witness ==
    /\ Formatted /\ options.maxEntries = Num(3, 2)
    /\ Cardinality(PresentUnits(before)) = 1 /\ PresentIntegers(before)
    /\ thrown = "FormatDurationOptionError"

\* the text between value and unit name
Spacing(opts) == IF opts.noSpaceBeforeUnit THEN "" ELSE " "

\* the text between two entries
SeparatorOf(opts) == IF opts.separator = <<>> THEN ", " ELSE opts.separator[1]

\* one entry: value, spacing, unit name
EntryText(dur, opts, u) ==
    ToString(dur[u].n) \o Spacing(opts) \o NameFor(opts, u, dur[u].n)

\* the entries of the units of `keep` among the first i units, largest first
RECURSIVE ListingOf(_, _, _, _)
ListingOf(dur, opts, keep, i) ==
    IF i = 0 THEN <<>>
    ELSE IF UnitOrder[i] \in keep
    THEN Append(ListingOf(dur, opts, keep, i - 1), EntryText(dur, opts, UnitOrder[i]))
    ELSE ListingOf(dur, opts, keep, i - 1)

\* the first n of the strings, all of them when there are fewer
FirstN(strings, n) ==
    SubSeq(strings, 1, IF n < Len(strings) THEN n ELSE Len(strings))

\* the strings cut to maxEntries when it is given
Capped(strings, opts) ==
    IF IsDefined(opts.maxEntries) THEN FirstN(strings, opts.maxEntries.n)
    ELSE strings

\* the strings with sep between each two neighbours
RECURSIVE JoinedWith(_, _)
JoinedWith(strings, sep) ==
    IF strings = <<>> THEN ""
    ELSE IF Len(strings) = 1 THEN strings[1]
    ELSE JoinedWith(SubSeq(strings, 1, Len(strings) - 1), sep) \o sep
            \o strings[Len(strings)]

\* the text of the entries of `keep`, cut to maxEntries and joined
ExpectedText(dur, opts, keep) ==
    JoinedWith(Capped(ListingOf(dur, opts, keep, 6), opts), SeparatorOf(opts))

\* the Duration with its zero-valued fields made absent
ZerosAbsent(dur) ==
    [u \in UnitNames |-> IF dur[u] = Integer(0) THEN Undefined ELSE dur[u]]

\* the present fields from the first non-zero one onward
FromFirstNonZero(dur) ==
    {u \in PresentUnits(dur) : \E v \in NonZeroUnits(dur) : Rank(v) <= Rank(u)}

\* the smallest-magnitude present unit
SmallestPresent(dur) ==
    CHOOSE u \in PresentUnits(dur) : \A v \in PresentUnits(dur) : Rank(v) <= Rank(u)

\* a call with integer fields, a field present and a usable maxEntries
FormatOk ==
    /\ Formatted /\ ValidMaxEntries(options)
    /\ PresentIntegers(before) /\ PresentUnits(before) # {}

\* C14: with hideZero true and a present non-zero field, the entries are
\* exactly the present non-zero fields in order, cut to maxEntries, and the
\* result is that of formatting the Duration with its zero fields made absent.
C14_HideZeroTrue ==
    (FormatOk /\ options.hideZero = "true" /\ NonZeroUnits(before) # {}) =>
        /\ thrown = "none"
        /\ returned = ExpectedText(before, options, NonZeroUnits(before))
        /\ returned = formatDuration(ZerosAbsent(before), options).returned

\* zero fields before, between and after the non-zero ones were hidden
C14_Witness ==
    /\ FormatOk /\ options.hideZero = "true" /\ thrown = "none"
    /\ \E u, v, w \in UnitNames :
        /\ Rank(u) < Rank(v) /\ Rank(v) < Rank(w)
        /\ u \in NonZeroUnits(before) /\ w \in NonZeroUnits(before)
        /\ before[v] = Integer(0)
    /\ before.years = Integer(0)
    /\ returned = ExpectedText(before, options, NonZeroUnits(before))

\* C15: with hideZero true and every present field zero, the result is one
\* entry, the value 0 with the plural name of the smallest present unit, for
\* every non-empty set of present fields.
C15_AllZeroFallback ==
    (FormatOk /\ options.hideZero = "true" /\ AllZero(before)) =>
        /\ thrown = "none"
        /\ LET name == NameFor(options, SmallestPresent(before), 0)
           IN  returned \in {"0 " \o name, "0" \o name}

\* hours, minutes and seconds all 0 gave "0 seconds"
C15_Witness ==
    /\ FormatOk /\ options.hideZero = "true"
    /\ PresentUnits(before) = {"hours", "minutes", "seconds"} /\ AllZero(before)
    /\ returned = "0 seconds"

\* C16: with hideZero "leading" and a present non-zero field, the entries are
\* the present fields from the first non-zero one onward, zero or not, in
\* order and cut to maxEntries.
C16_HideZeroLeading ==
    (FormatOk /\ options.hideZero = "leading" /\ NonZeroUnits(before) # {}) =>
        /\ thrown = "none"
        /\ returned = ExpectedText(before, options, FromFirstNonZero(before))

\* a leading zero was dropped and a later zero kept
C16_Witness ==
    /\ FormatOk /\ options.hideZero = "leading" /\ thrown = "none"
    /\ \E u, v, w \in PresentUnits(before) :
        /\ Rank(u) < Rank(v) /\ Rank(v) < Rank(w)
        /\ before[u] = Integer(0) /\ v \in NonZeroUnits(before)
        /\ before[w] = Integer(0)
        /\ \A x \in PresentUnits(before) : Rank(x) < Rank(v) => before[x] = Integer(0)
    /\ returned = ExpectedText(before, options, FromFirstNonZero(before))
    /\ returned # ExpectedText(before, options, PresentUnits(before))
    /\ returned # ExpectedText(before, options, NonZeroUnits(before))

\* the fields whose entries remain once hideZero has been applied
Shown(dur, opts) ==
    IF opts.hideZero = "true" THEN NonZeroUnits(dur)
    ELSE IF opts.hideZero = "leading" THEN FromFirstNonZero(dur)
    ELSE PresentUnits(dur)

\* the texts of at most n entries taken from the front of the strings
UpToN(strings, sep, n) ==
    {JoinedWith(FirstN(strings, j), sep) : j \in 1..n}

\* C17: maxEntries caps the output after zero-hiding: the result is the first
\* maxEntries entries of the list left by hideZero, so a hidden zero uses no
\* slot and, with hideZero off, zeros count toward the cap; the output never
\* has more than maxEntries entries.
C17_MaxEntriesCap ==
    (FormatOk /\ IsDefined(options.maxEntries)) =>
        LET cap == options.maxEntries.n
            sep == SeparatorOf(options)
            left == ListingOf(before, options, Shown(before, options), 6)
            all == ListingOf(before, options, PresentUnits(before), 6)
            zero == NameFor(options, SmallestPresent(before), 0)
        IN  /\ thrown = "none"
            /\ left # <<>> => returned = JoinedWith(FirstN(left, cap), sep)
            /\ left = <<>> =>
                returned \in UpToN(all, sep, cap) \cup {"0 " \o zero, "0" \o zero}

\* two non-zero entries filled both slots although a zero entry came first,
\* and a third non-zero entry was cut
C17_Witness ==
    /\ FormatOk /\ options.maxEntries = Integer(2) /\ options.hideZero = "true"
    /\ Cardinality(NonZeroUnits(before)) >= 3
    /\ \E u \in PresentUnits(before) :
        /\ before[u] = Integer(0)
        /\ \A v \in NonZeroUnits(before) : Rank(u) < Rank(v)
    /\ returned = JoinedWith(FirstN(ListingOf(before, options,
                                NonZeroUnits(before), 6), 2), SeparatorOf(options))
    /\ returned # ExpectedText(before, options, PresentUnits(before))

\* C18 as stated: with noSpaceBeforeUnit true every entry is the value
\* immediately followed by the unit name, for every combination of the other
\* options and also when all present fields are zero; otherwise exactly one
\* space separates them.
C18_SpaceBeforeUnit ==
    FormatOk =>
        LET name == NameFor(options, SmallestPresent(before), 0)
            left == Shown(before, options)
        IN  /\ thrown = "none"
            /\ left # {} => returned = ExpectedText(before, options, left)
            /\ left = {} =>
                returned \in {"0" \o Spacing(options) \o name,
                              ExpectedText(before, options, PresentUnits(before))}

\* C19: the entries are joined with options.separator whenever one is given,
\* the empty string included, and with ", " only when none is given; the
\* separator stands between each two successive entries and nowhere else.
C19_Separator ==
    (FormatOk /\ Shown(before, options) # {}) =>
        LET kept == Capped(ListingOf(before, options, Shown(before, options), 6),
                           options)
        IN  /\ thrown = "none"
            /\ options.separator # <<>> =>
                returned = JoinedWith(kept, options.separator[1])
            /\ options.separator = <<>> => returned = JoinedWith(kept, ", ")

\* two entries were joined by the empty separator
C19_Witness ==
    /\ FormatOk /\ options.separator = <<"">> /\ thrown = "none"
    /\ options.hideZero = "undefined" /\ ~IsDefined(options.maxEntries)
    /\ ~options.noSpaceBeforeUnit
    /\ PresentUnits(before) = {"seconds", "milliseconds"}
    /\ before.seconds = Integer(1) /\ before.milliseconds = Integer(1999)
    /\ returned = "1 second1999 milliseconds"

\* C20: formatDuration does not mutate its input: over any call, returning
\* or throwing, every field of the Duration (value and presence) and every
\* option stays what it was.
C20_InputUnchanged ==
    [][op' = "formatDuration" => (duration' = duration /\ options' = options)]_vars

\* a call returned for a Duration whose seconds could be carried, and one
\* field is absent; the Duration is still the one passed in
C20_Witness ==
    /\ Formatted /\ thrown = "none" /\ returned # ""
    /\ PresentIntegers(before) /\ before.seconds.k = "number"
    /\ before.seconds.n >= SecondsPerMinute /\ Present(before, "minutes")
    /\ ~Present(before, "hours")
    /\ duration = before

(***************************************************************************)
(* The error classes.  A class is its name as written after `class`; each  *)
(* table maps a class to the class it extends.  `thrown` holds the class   *)
(* the thrown error was constructed from.                                  *)
(***************************************************************************)
\* `class DurationError extends Error {}`
DurationErrorClasses == [c \in {"DurationError"} |-> "Error"]

\* the classes of normalizeDuration's module
NormalizeErrorClasses ==
    [c \in {"NormalizeDurationError", "NormalizeNonIntegerDurationError"} |->
        IF c = "NormalizeDurationError" THEN "DurationError"
        ELSE "NormalizeDurationError"]

\* FormatErrorClasses with FormatDurationError extending Error directly
FormatErrorClassesDetached ==
    [c \in {"FormatDurationError", "FormatEmptyDurationError",
            "FormatNonIntegerDurationError", "FormatDurationOptionError"} |->
        IF c = "FormatDurationError" THEN "Error" ELSE "FormatDurationError"]

\* the classes of formatDuration's module
FormatErrorClasses ==
    [c \in {"FormatDurationError", "FormatEmptyDurationError",
            "FormatNonIntegerDurationError", "FormatDurationOptionError"} |->
        IF c = "FormatDurationError" THEN "DurationError" ELSE "FormatDurationError"]

\* the class each class extends
Superclass == DurationErrorClasses @@ NormalizeErrorClasses @@ FormatErrorClasses

ErrorClasses == DOMAIN Superclass

\* `new c() instanceof k`: k is c or a class c extends, directly or not
RECURSIVE InstanceOf(_, _)
InstanceOf(c, k) ==
    \/ c = k
    \/ (c \in ErrorClasses /\ InstanceOf(Superclass[c], k))

\* C21: every error raised belongs to the hierarchy: what formatDuration
\* throws is one of its three errors and a FormatDurationError, what
\* normalizeDuration throws is a NormalizeDurationError, both are
\* DurationErrors, and no format error is a NormalizeDurationError or the
\* other way round.
C21_ErrorHierarchy ==
    thrown # "none" =>
        /\ InstanceOf(thrown, "DurationError")
        /\ Formatted =>
            /\ thrown \in {"FormatEmptyDurationError", "FormatNonIntegerDurationError",
                           "FormatDurationOptionError"}
            /\ InstanceOf(thrown, "FormatDurationError")
            /\ ~InstanceOf(thrown, "NormalizeDurationError")
        /\ Normalized =>
            /\ thrown = "NormalizeNonIntegerDurationError"
            /\ InstanceOf(thrown, "NormalizeDurationError")
            /\ ~InstanceOf(thrown, "FormatDurationError")

\* formatDuration threw for a fractional field; the error is a
\* FormatDurationError and a DurationError
C21_Witness ==
    /\ Formatted /\ thrown = "FormatNonIntegerDurationError"
    /\ \E u \in UnitNames : before[u] = Num(3, 2)
    /\ InstanceOf(thrown, "FormatDurationError") /\ InstanceOf(thrown, "DurationError")

\* C22 as stated: the fields are validated before maxEntries: when a present
\* field holds a non-zero non-integer value and maxEntries is given and not a
\* positive integer, formatDuration throws FormatNonIntegerDurationError.
C22_FieldsValidatedFirst ==
    (/\ Formatted
     /\ \E u \in UnitNames :
            /\ Present(before, u) /\ before[u].k = "number"
            /\ ~NumberIsInteger(before[u])
     /\ IsDefined(options.maxEntries) /\ ~ValidMaxEntries(options)) =>
        thrown = "FormatNonIntegerDurationError"

\* C23 as stated: with hideZero "leading" and every present field zero, the
\* result is one entry, the value 0 with the plural name of the smallest
\* present unit, the same result as with hideZero true (compared where the
\* space before the unit is kept, the fallback's spacing being another matter).
C23_LeadingAllZero ==
    (FormatOk /\ options.hideZero = "leading" /\ AllZero(before)) =>
        /\ thrown = "none"
        /\ LET name == NameFor(options, SmallestPresent(before), 0)
           IN  returned \in {"0 " \o name, "0" \o name}
        /\ ~options.noSpaceBeforeUnit =>
            returned =
                formatDuration(before, [options EXCEPT !.hideZero = "true"]).returned

\* the Duration with the fields smaller than u taken out
AtLeast(dur, u) ==
    [v \in UnitNames |-> IF Rank(v) <= Rank(u) THEN dur[v] ELSE Undefined]

\* the amount of time held by the present units at least as large as u
HeldAtLeast(dur, u) == TotalDuration(AtLeast(dur, u))

\* a total is not smaller than another
NotSmaller(a, b) == a[1] > b[1] \/ (a[1] = b[1] /\ a[2] >= b[2])

\* C24: normalizeDuration only carries upward: for non-negative integer
\* fields and every present unit u, the time held by the present units at
\* least as large as u is not smaller after the call than before; the largest
\* present unit's value never decreases.
C24_OnlyCarriesUpward ==
    (Normalized /\ NonNegativeIntegers(before)) =>
        /\ thrown = "none"
        /\ \A u \in PresentUnits(before) :
            /\ NotSmaller(HeldAtLeast(duration, u), HeldAtLeast(before, u))
            /\ IsLargestPresent(before, u) => duration[u].n >= before[u].n

\* days is the largest present unit and holds more than a year, which it
\* keeps; it gains a day from hours, and seconds, below the absent minutes,
\* keeps its whole minutes
C24_Witness ==
    /\ Normalized /\ NonNegativeIntegers(before) /\ thrown = "none"
    /\ IsLargestPresent(before, "days") /\ before.days.n >= DaysPerYear
    /\ Present(before, "hours") /\ ~Present(before, "minutes")
    /\ Present(before, "seconds") /\ before.seconds.n >= SecondsPerMinute
    /\ duration.days.n > before.days.n
    /\ duration.seconds.n >= SecondsPerMinute
    /\ HeldAtLeast(duration, "days") # HeldAtLeast(before, "days")
    /\ HeldAtLeast(duration, "hours") = HeldAtLeast(before, "hours")

\* C25 as stated: normalizeDuration accepts every integer field value,
\* negative ones included; when the present fields are integers of either
\* sign it returns, the signed total duration is what it was, and a second
\* application changes nothing.
C25_SignedTotalPreserved ==
    (Normalized /\ PresentIntegers(before)) =>
        /\ thrown = "none"
        /\ TotalDuration(duration) = TotalDuration(before)
        /\ InRange(duration) => normalizeDuration(duration).duration = duration

(***************************************************************************)
(* The normalizeDuration and formatDuration that index.ts defines itself   *)
(* (the one with maxEntries and the unit-name options in its option type). *)
(***************************************************************************)
\* index.ts normalizeDuration: the quotients are added as they are
IndexNormalizeDuration(dur) ==
    IF NonIntegerCheck(dur)
    THEN [thrown |-> "NormalizeNonIntegerDurationError", duration |-> dur]
    ELSE
    LET milliseconds0 == Coalesce(dur.milliseconds, Integer(0))
        seconds0 == Coalesce(dur.seconds, Integer(0))
        minutes0 == Coalesce(dur.minutes, Integer(0))
        hours0 == Coalesce(dur.hours, Integer(0))
        days0 == Coalesce(dur.days, Integer(0))
        years0 == Coalesce(dur.years, Integer(0))
        seconds1 == JsAdd(seconds0, JsDiv(milliseconds0, MillisecondsPerSecond))
        milliseconds1 == JsRem(milliseconds0, MillisecondsPerSecond)
        minutes1 == JsAdd(minutes0, JsDiv(seconds1, SecondsPerMinute))
        seconds2 == JsRem(seconds1, SecondsPerMinute)
        hours1 == JsAdd(hours0, JsDiv(minutes1, MinutesPerHour))
        minutes2 == JsRem(minutes1, MinutesPerHour)
        days1 == JsAdd(days0, JsDiv(hours1, HoursPerDay))
        hours2 == JsRem(hours1, HoursPerDay)
        years1 == JsAdd(years0, JsDiv(days1, DaysPerYear))
        days2 == JsRem(days1, DaysPerYear)
        days3 == Fold(dur.years, days2, years1, DaysPerYear)
        hours3 == Fold(dur.days, hours2, days3, HoursPerDay)
        minutes3 == Fold(dur.hours, minutes2, hours3, MinutesPerHour)
        seconds3 == Fold(dur.minutes, seconds2, minutes3, SecondsPerMinute)
        milliseconds2 == Fold(dur.seconds, milliseconds1, seconds3, MillisecondsPerSecond)
    IN  [thrown |-> "none",
         duration |->
            [years |-> Store(dur.years, years1),
             days |-> Store(dur.days, days3),
             hours |-> Store(dur.hours, hours3),
             minutes |-> Store(dur.minutes, minutes3),
             seconds |-> Store(dur.seconds, seconds3),
             milliseconds |-> Store(dur.milliseconds, milliseconds2)]]

\* `duration.x != undefined && { value: duration.x, unit }`, filtered
IndexEntryOf(value, unit) ==
    IF IsDefined(value) THEN <<[value |-> value, unit |-> unit]>> ELSE <<>>

\* the entry list of index.ts formatDuration, cut to maxEntries at once
IndexEntries(dur, opts) ==
    SliceMax(IndexEntryOf(dur.years, "year") \o IndexEntryOf(dur.days, "day")
             \o IndexEntryOf(dur.hours, "hour") \o IndexEntryOf(dur.minutes, "minute")
             \o IndexEntryOf(dur.seconds, "second")
             \o IndexEntryOf(dur.milliseconds, "millisecond"),
             opts.maxEntries)

\* `${item.value} ${item.unit}${item.value == 1 ? `` : `s`}`
IndexRenderEntry(item) ==
    NumberToString(item.value) \o " " \o item.unit
    \o (IF item.value = Integer(1) THEN "" ELSE "s")

\* entries.map(render).join(`, `)
IndexRenderEntries(entries) ==
    Join([i \in 1..Len(entries) |-> IndexRenderEntry(entries[i])], ", ")

\* index.ts formatDuration
IndexFormatDuration(dur, opts) ==
    IF NonIntegerCheck(dur)
    THEN [thrown |-> "FormatNonIntegerDurationError", returned |-> ""]
    ELSE
    LET entries == IndexEntries(dur, opts)
        nonZeros == FilterTruthy(entries)
    IN  IF Len(entries) = 0
        THEN [thrown |-> "FormatEmptyDurationError", returned |-> ""]
        ELSE IF HideZeroTruthy(opts.hideZero)
        THEN (IF Len(nonZeros) > 0
              THEN [thrown |-> "none", returned |-> IndexRenderEntries(nonZeros)]
              ELSE [thrown |-> "none",
                    returned |-> "0 " \o entries[1].unit \o "s"])
        ELSE [thrown |-> "none", returned |-> IndexRenderEntries(entries)]

\* the Duration of the examples and tests
ExampleDuration ==
    [years |-> Integer(54), days |-> Integer(349), hours |-> Integer(11),
     minutes |-> Integer(47), seconds |-> Integer(14),
     milliseconds |-> Integer(227)]

\* field values tried on index.ts: 0, half the span, the span, one and a half
IndexValues(u) ==
    {Integer((h * InputSpan(u)) \div 2) : h \in 0..3}

\* all six fields present, and the Duration of its tests
IndexDurations ==
    [years : IndexValues("years"), days : IndexValues("days"),
     hours : IndexValues("hours"), minutes : IndexValues("minutes"),
     seconds : IndexValues("seconds"), milliseconds : IndexValues("milliseconds")]
    \cup {ExampleDuration}

\* the options tried on index.ts: none, every unit name overridden,
\* hideZero, maxEntries
IndexOptions ==
    {DefaultOptions, WithNames(DefaultOptions, NameKeys),
     [DefaultOptions EXCEPT !.hideZero = "true"],
     [DefaultOptions EXCEPT !.hideZero = "false"]}
    \cup {[DefaultOptions EXCEPT !.maxEntries = Integer(k)] : k \in 1..MaxEntriesTried}

IndexInit ==
    /\ duration \in IndexDurations
    /\ options \in IndexOptions
    /\ before = duration
    /\ op = "none" /\ thrown = "none" /\ returned = "" /\ calls = 0

\* the quotients of the Duration stay within the model's numbers
IndexInRange(dur) ==
    /\ InRange(dur)
    /\ NonIntegerCheck(dur)
        \/ Amount(dur, "milliseconds") % (MillisecondsPerSecond \div 2) = 0

IndexNormalize ==
    /\ IndexInRange(duration)
    /\ LET result == IndexNormalizeDuration(duration)
       IN  /\ duration' = result.duration
           /\ thrown' = result.thrown
    /\ before' = duration
    /\ op' = "index.normalizeDuration"
    /\ returned' = ""
    /\ UNCHANGED <<options, calls>>

IndexFormat ==
    /\ LET result == IndexFormatDuration(duration, options)
       IN  /\ thrown' = result.thrown
           /\ returned' = result.returned
    /\ before' = duration
    /\ op' = "index.formatDuration"
    /\ UNCHANGED <<duration, options, calls>>

IndexNext == IndexNormalize \/ IndexFormat

SpecIndex == IndexInit /\ [][IndexNext]_vars

\* C26 as stated: index.ts normalizeDuration on six present non-negative
\* integer fields leaves every field an integer with milliseconds < 1000,
\* seconds < 60, minutes < 60, hours < 24, days < 365 and the same total
\* duration.
C26_IndexNormalize ==
    (/\ op = "index.normalizeDuration"
     /\ AllPresent(before) /\ NonNegativeIntegers(before)) =>
        /\ thrown = "none"
        /\ PresentIntegers(duration)
        /\ \A u \in UnitNames \ {"years"} :
            duration[u].n >= 0 /\ duration[u].n < UnitBound(u)
        /\ TotalDuration(duration) = TotalDuration(before)

\* C27 as stated: index.ts formatDuration renders each entry with the
\* unit-name overrides of its options: with every name overridden to y, d, h,
\* m, s, ms the Duration 54, 349, 11, 47, 14, 227 formats as
\* "54 y, 349 d, 11 h, 47 m, 14 s, 227 ms".
C27_IndexUnitNames ==
    (/\ op = "index.formatDuration" /\ PresentIntegers(before)
     /\ PresentUnits(before) # {} /\ OnlyNamesGiven(options)) =>
        /\ thrown = "none"
        /\ returned = CommaJoined(NamedListing(before, options, 6))
        /\ (before = ExampleDuration /\ options = WithNames(DefaultOptions, NameKeys))
            => returned = "54 y, 349 d, 11 h, 47 m, 14 s, 227 ms"

(***************************************************************************)
(* The `name` of an error.  Each module runs its                           *)
(* `Object.defineProperty(C.prototype, "name", { value })` statements once, *)
(* in order; an instance's name is the own `name` of the nearest prototype *)
(* on its chain that has one.                                              *)
(***************************************************************************)
\* the defineProperty statement of DurationError's module
DurationErrorNames == <<[class |-> "DurationError", value |-> "DurationError"]>>

\* the defineProperty statements of normalizeDuration's module
NormalizeErrorNames ==
    <<[class |-> "NormalizeDurationError", value |-> "NormalizeDurationError"],
      [class |-> "NormalizeNonIntegerDurationError",
       value |-> "NormalizeDurationNonIntegerError"]>>

\* the defineProperty statements of formatDuration's module
FormatErrorNames ==
    <<[class |-> "FormatDurationError", value |-> "FormatDurationError"],
      [class |-> "FormatEmptyDurationError", value |-> "FormatEmptyDurationError"],
      [class |-> "FormatEmptyDurationError", value |-> "FormatEmptyDurationError"],
      [class |-> "FormatDurationOptionError", value |-> "FormatDurationOptionError"]>>

NameDefinitions == DurationErrorNames \o NormalizeErrorNames \o FormatErrorNames

\* the prototype of class c has an own `name`
HasOwnName(c) == \E i \in 1..Len(NameDefinitions) : NameDefinitions[i].class = c

\* the own `name` of c's prototype: the first definition stays, the property
\* being neither writable nor configurable
OwnName(c) ==
    NameDefinitions[CHOOSE i \in 1..Len(NameDefinitions) :
        /\ NameDefinitions[i].class = c
        /\ \A j \in 1..(i - 1) : NameDefinitions[j].class # c].value

\* `new c().name`, resolved through the prototype chain; Error.prototype.name
\* is "Error"
RECURSIVE NameOf(_)
NameOf(c) ==
    IF c \notin ErrorClasses THEN "Error"
    ELSE IF HasOwnName(c) THEN OwnName(c)
    ELSE NameOf(Superclass[c])

\* C28 as stated: each error class reports a name equal to its own class
\* name, so that the name of a thrown error is its class name and no other
\* of the seven error kinds reports that name.
C28_NameIsClassName ==
    thrown # "none" =>
        /\ NameOf(thrown) = thrown
        /\ \A c \in ErrorClasses \ {thrown} : NameOf(c) # NameOf(thrown)

====
